---- MODULE Spec2Model ----
(***************************************************************************)
(* Model of boost/stacktrace/frame.hpp: the frame value type, its          *)
(* comparison / hashing / streaming operators, the detail::backend         *)
(* interface it delegates to, and the preprocessor block that selects the  *)
(* backend.                                                                *)
(*                                                                         *)
(* Four specifications share the module:                                  *)
(*   Spec         frames being constructed, copied, observed and resolved  *)
(*   SpecResolve  the same, remembering a resolving call for comparison    *)
(*   SpecCollect  detail::backend::collect filling a caller's buffer       *)
(*   SpecBuild    the preprocessor walking the header's #if blocks         *)
(***************************************************************************)
EXTENDS Integers, Sequences, FiniteSets, TLC

\* ------------------------------------------------------------------ bounds
\* Addresses are the machine words 0..MaxAddr.
MaxAddr == 2
\* Number of frame objects alive in the program.
NumFrames == 2
\* Deepest call stack collect() is run against.
MaxDepth == 3
\* Number of slots in the caller's buffer handed to collect().
BufLen == 2

\* The null pointer constant of frame(): addr_(0).
NULL == 0

Addr == 0..MaxAddr
Frames == 1..NumFrames

VARIABLES
    frames,     \* frames[i].addr_ : the one data member of frame object i
    given,      \* history: the address frame i was last constructed from
    kind,       \* history: "default" or "bound", the constructor that made frame i
    ret,        \* the last operation, its operands and what it returned
    first,      \* history: one remembered resolution call and its result
    backend,    \* the backend this build links
    stack,      \* the live call stack collect() walks, innermost first
    memory,     \* the caller's buffer handed to collect()
    size,       \* the capacity argument of the last collect()
    count,      \* the value the last collect() returned
    defined,    \* the macros defined at the preprocessor's current position
    user,       \* history: the macros the user predefined
    platform,   \* what the compiler and the target platform provide
    pp          \* the preprocessor's position in the header

frameVars == <<frames, given, kind, ret, first, backend>>
collectVars == <<stack, memory, size, count>>
buildVars == <<defined, user, platform, pp>>
vars == <<frames, given, kind, ret, first, backend,
          stack, memory, size, count, defined, user, platform, pp>>

\* ------------------------------------------------------------ class frame
\* Mutant: the default constructor leaves a non-null word in addr_.
frame_default_nonnull == [addr_ |-> NULL + 1]

\* frame() : addr_(0)
frame_default == [addr_ |-> NULL]

\* Mutant: the constructor aligns the address down to an even word.
frame_addr_aligned(addr) == [addr_ |-> addr - (addr % 2)]

\* explicit frame(const void* addr) : addr_(addr)
frame_addr(addr) == [addr_ |-> addr]

\* const void* address() const { return addr_; }
address(f) == f.addr_

\* contextual conversion of a pointer to bool: null is false, all else true
ptr_to_bool(p) == p # NULL

\* Mutant: empty() without the negation.
empty_unnegated(f) == ptr_to_bool(f.addr_)

\* bool empty() const { return !address(); }
empty(f) == ~ptr_to_bool(address(f))

\* Mutant: operator! without the negation.
operator_not_unnegated(f) == ptr_to_bool(f.addr_)

\* bool operator!() const { return !address(); }
operator_not(f) == ~ptr_to_bool(address(f))

\* BOOST_EXPLICIT_OPERATOR_BOOL_NOEXCEPT():
\*   explicit operator bool() const noexcept { return !this->operator!(); }
operator_bool(f) == ~operator_not(f)

\* ------------------------------------------------- comparison operators
\* Relational comparison of two object pointers: the platform compares the
\* address words.
ptr_less(p, q) == p < q

operator_less(lhs, rhs) == ptr_less(address(lhs), address(rhs))
\* Mutant: operator> forgets to swap its operands.
operator_greater_unswapped(lhs, rhs) == operator_less(lhs, rhs)
operator_greater(lhs, rhs) == operator_less(rhs, lhs)
operator_less_equal(lhs, rhs) == ~operator_greater(lhs, rhs)
operator_greater_equal(lhs, rhs) == ~operator_less(lhs, rhs)
operator_equal(lhs, rhs) == address(lhs) = address(rhs)
operator_not_equal(lhs, rhs) == ~operator_equal(lhs, rhs)

\* ---------------------------------------------------------------- hashing
\* std::size_t has as many values as there are address words.
SizeTModulus == MaxAddr + 1

\* reinterpret_cast<std::size_t>(p): the address word read as an unsigned
\* integer of size_t's width.
reinterpret_cast_size_t(p) == p % SizeTModulus

\* Mutant: the hash drops the low bit of the address.
hash_value_shifted(f) == reinterpret_cast_size_t(address(f)) \div 2

hash_value(f) == reinterpret_cast_size_t(address(f))

\* ------------------------------------------------------- detail::backend
\* The strategies one of which a build links.
Backends == {"noop", "windbg", "addr2line", "backtrace"}

EmptyString == <<>>

\* The program image's debug information, the same for the life of the
\* process: some addresses lie in a function with line information, some in a
\* function whose line information is stripped, and the rest (null among
\* them) in no function at all.
HasSymbol(addr) == addr # NULL /\ addr % 3 # 0
HasLine(addr) == addr # NULL /\ addr % 3 = 1

\* What the active backend resolves an address to; the no-op backend resolves
\* nothing, and a miss is an empty string or line 0.
backend_name(addr) ==
    IF backend = "noop" \/ ~HasSymbol(addr) THEN EmptyString ELSE <<"fn", addr>>

backend_line(addr) ==
    IF backend = "noop" \/ ~HasLine(addr) THEN 0 ELSE 10 + addr

backend_file(addr) ==
    IF backend_line(addr) = 0 THEN EmptyString ELSE <<"file", addr>>

\* std::string backend::to_string(const void* addr):
\* "name at file:line", or the bare address if nothing resolves.
backend_to_string(addr) ==
    IF backend_name(addr) = EmptyString
    THEN <<"0x", addr>>
    ELSE <<backend_name(addr), "at", backend_file(addr), backend_line(addr)>>

\* std::string frame::name() const
name(f) == backend_name(address(f))

\* std::string frame::source_file() const
source_file(f) == backend_file(address(f))

\* std::size_t frame::source_line() const
source_line(f) == backend_line(address(f))

\* operator<<(os, f): os << backend::to_string(f.address())
stream_insert(f) == backend_to_string(address(f))

\* ------------------------------------------------ backend::collect
Min(a, b) == IF a <= b THEN a ELSE b

\* The caller's storage: BufLen slots it owns, and the word after them, which
\* it does not.
Slots == 1..(BufLen + 1)
FreshBuffer == [k \in Slots |-> "untouched"]

\* Mutant: the walk tests the capacity after storing, one frame too late.
collect_count_late(stk, sz) == Min(Len(stk), sz + 1)

\* std::size_t collect(void** memory, std::size_t size): the number of
\* addresses written, the true depth truncated to the capacity.
collect_count(stk, sz) == Min(Len(stk), sz)

\* The buffer after collect: the innermost collect_count frames, in order.
collect_memory(mem, stk, sz) ==
    [k \in Slots |-> IF k <= collect_count(stk, sz) THEN stk[k] ELSE mem[k]]

\* ------------------------------------------------------ steps of a program
\* The history of resolving calls: nothing remembered yet, or not kept at all.
NoCall == [frame |-> 0, op |-> "none", val |-> EmptyString]
Untracked == [frame |-> 0, op |-> "untracked", val |-> EmptyString]

Returned(op, lhs, rhs, val) == [op |-> op, lhs |-> lhs, rhs |-> rhs, val |-> val]

\* Constructing or assigning frame i ends what was remembered about it.
Forget(i) == IF first.frame = i THEN NoCall ELSE first

\* frame i = frame();
Default(i) ==
    /\ frames' = [frames EXCEPT ![i] = frame_default]
    /\ given' = [given EXCEPT ![i] = NULL]
    /\ kind' = [kind EXCEPT ![i] = "default"]
    /\ first' = Forget(i)
    /\ ret' = Returned("frame()", i, i, NULL)
    /\ UNCHANGED <<backend, collectVars, buildVars>>

\* frame i = frame(addr);
Bind(i, addr) ==
    /\ frames' = [frames EXCEPT ![i] = frame_addr(addr)]
    /\ given' = [given EXCEPT ![i] = addr]
    /\ kind' = [kind EXCEPT ![i] = "bound"]
    /\ first' = Forget(i)
    /\ ret' = Returned("frame(addr)", i, i, addr)
    /\ UNCHANGED <<backend, collectVars, buildVars>>

\* frame i = frame j;  (the implicit copy constructor and copy assignment)
Copy(i, j) ==
    /\ i # j
    /\ frames' = [frames EXCEPT ![i] = frames[j]]
    /\ given' = [given EXCEPT ![i] = given[j]]
    /\ kind' = [kind EXCEPT ![i] = kind[j]]
    /\ first' = Forget(i)
    /\ ret' = Returned("copy", i, j, address(frames[j]))
    /\ UNCHANGED <<backend, collectVars, buildVars>>

\* A const member or free function: returns a value, writes nothing.
Observe(op, i, j, val) ==
    /\ ret' = Returned(op, i, j, val)
    /\ UNCHANGED <<frames, given, kind, first, backend, collectVars, buildVars>>

\* Mutant: empty() written with an assignment, !(addr_ = 0), clearing the frame.
Empty_assigning(i) ==
    /\ frames' = [frames EXCEPT ![i] = frame_default]
    /\ ret' = Returned("empty", i, i, TRUE)
    /\ UNCHANGED <<given, kind, first, backend, collectVars, buildVars>>

\* Mutant: streaming a frame consumes it, leaving it null.
Stream_consuming(i) ==
    /\ frames' = [frames EXCEPT ![i] = frame_default]
    /\ ret' = Returned("<<", i, i, stream_insert(frames[i]))
    /\ UNCHANGED <<given, kind, first, backend, collectVars, buildVars>>

Address(i) == Observe("address", i, i, address(frames[i]))
Empty(i) == Observe("empty", i, i, empty(frames[i]))
Bool(i) == Observe("bool", i, i, operator_bool(frames[i]))
Not(i) == Observe("!", i, i, operator_not(frames[i]))
Less(i, j) == Observe("<", i, j, operator_less(frames[i], frames[j]))
Greater(i, j) == Observe(">", i, j, operator_greater(frames[i], frames[j]))
LessEqual(i, j) == Observe("<=", i, j, operator_less_equal(frames[i], frames[j]))
GreaterEqual(i, j) == Observe(">=", i, j, operator_greater_equal(frames[i], frames[j]))
Equal(i, j) == Observe("==", i, j, operator_equal(frames[i], frames[j]))
NotEqual(i, j) == Observe("!=", i, j, operator_not_equal(frames[i], frames[j]))
Hash(i) == Observe("hash_value", i, i, hash_value(frames[i]))
Stream(i) == Observe("<<", i, i, stream_insert(frames[i]))

\* A resolving call: as an observer, and the history may remember it as the
\* call later ones on the same frame are compared with.
Resolve(op, i, val) ==
    /\ ret' = Returned(op, i, i, val)
    /\ \E remember \in BOOLEAN :
          first' = IF remember /\ first = NoCall
                   THEN [frame |-> i, op |-> op, val |-> val]
                   ELSE first
    /\ UNCHANGED <<frames, given, kind, backend, collectVars, buildVars>>

Name(i) == Resolve("name", i, name(frames[i]))
SourceFile(i) == Resolve("source_file", i, source_file(frames[i]))
SourceLine(i) == Resolve("source_line", i, source_line(frames[i]))

ObserverOps == {"address", "empty", "bool", "!", "<", ">", "<=", ">=", "==", "!=",
                "hash_value", "name", "source_file", "source_line", "<<"}
ResolveOps == {"name", "source_file", "source_line"}

\* The frames of a program that has constructed them and done nothing else.
FramesFresh ==
    /\ frames = [i \in Frames |-> frame_default]
    /\ given = [i \in Frames |-> NULL]
    /\ kind = [i \in Frames |-> "default"]
    /\ ret = Returned("frame()", NumFrames, NumFrames, NULL)

\* No capture has run.
CollectIdle ==
    /\ memory = FreshBuffer
    /\ size = 0
    /\ count = 0

\* The header has been preprocessed.
BuildDone ==
    /\ defined = {}
    /\ user = {}
    /\ platform = [has_include |-> FALSE, gnuc |-> "undefined", clang |-> FALSE,
                   dbgeng_h |-> FALSE, windows |-> FALSE]
    /\ pp = "done"

Init ==
    /\ FramesFresh
    /\ first = Untracked
    /\ backend \in Backends
    /\ stack = <<>>
    /\ CollectIdle
    /\ BuildDone

Next ==
    \/ \E i \in Frames : Default(i)
    \/ \E i \in Frames, addr \in Addr : Bind(i, addr)
    \/ \E i, j \in Frames : Copy(i, j)
    \/ \E i \in Frames : Address(i)
    \/ \E i \in Frames : Empty(i)
    \/ \E i \in Frames : Bool(i)
    \/ \E i \in Frames : Not(i)
    \/ \E i, j \in Frames : Less(i, j)
    \/ \E i, j \in Frames : Greater(i, j)
    \/ \E i, j \in Frames : LessEqual(i, j)
    \/ \E i, j \in Frames : GreaterEqual(i, j)
    \/ \E i, j \in Frames : Equal(i, j)
    \/ \E i, j \in Frames : NotEqual(i, j)
    \/ \E i \in Frames : Hash(i)
    \/ \E i \in Frames : Stream(i)
    \/ \E i \in Frames : Name(i)
    \/ \E i \in Frames : SourceFile(i)
    \/ \E i \in Frames : SourceLine(i)

Spec == Init /\ [][Next]_vars

\* The same program with the history of resolving calls kept: frames are
\* made, assigned, observed and streamed between one resolving call and the
\* next.
InitResolve ==
    /\ FramesFresh
    /\ first = NoCall
    /\ backend \in Backends
    /\ stack = <<>>
    /\ CollectIdle
    /\ BuildDone

NextResolve ==
    \/ \E i \in Frames : Default(i)
    \/ \E i \in Frames, addr \in Addr : Bind(i, addr)
    \/ \E i, j \in Frames : Copy(i, j)
    \/ \E i \in Frames : Address(i)
    \/ \E i \in Frames : Empty(i)
    \/ \E i, j \in Frames : Less(i, j)
    \/ \E i \in Frames : Hash(i)
    \/ \E i \in Frames : Stream(i)
    \/ \E i \in Frames : Name(i)
    \/ \E i \in Frames : SourceFile(i)
    \/ \E i \in Frames : SourceLine(i)

SpecResolve == InitResolve /\ [][NextResolve]_vars

\* ------------------------------------------------------ capturing a stack
\* Call stacks of 1..MaxDepth return addresses, none of them null.
RECURSIVE SeqsUpTo(_)
SeqsUpTo(n) ==
    IF n = 0 THEN {<<>>}
    ELSE LET shorter == SeqsUpTo(n - 1)
         IN  shorter \cup {Append(q, a) : q \in {r \in shorter : Len(r) = n - 1},
                                          a \in Addr \ {NULL}}

Stacks == SeqsUpTo(MaxDepth) \ {<<>>}

\* count = backend::collect(buffer, sz) on a buffer the caller just made.
Collect(sz) ==
    /\ memory' = collect_memory(FreshBuffer, stack, sz)
    /\ size' = sz
    /\ count' = collect_count(stack, sz)
    /\ ret' = Returned("collect", 0, 0, collect_count(stack, sz))
    /\ UNCHANGED <<frames, given, kind, first, backend, stack, buildVars>>

\* frame i = frame(buffer[k]) for one of the addresses collect returned.
Wrap(i, k) ==
    /\ k <= count
    /\ frames' = [frames EXCEPT ![i] = frame_addr(memory[k])]
    /\ given' = [given EXCEPT ![i] = memory[k]]
    /\ kind' = [kind EXCEPT ![i] = "bound"]
    /\ ret' = Returned("frame(addr)", i, i, memory[k])
    /\ UNCHANGED <<first, backend, collectVars, buildVars>>

InitCollect ==
    /\ FramesFresh
    /\ first = Untracked
    /\ backend = "backtrace"
    /\ stack \in Stacks
    /\ CollectIdle
    /\ BuildDone

NextCollect ==
    \/ \E sz \in 0..BufLen : Collect(sz)
    \/ \E i \in Frames, k \in 1..BufLen : Wrap(i, k)

SpecCollect == InitCollect /\ [][NextCollect]_vars

\* ------------------------------------------------ preprocessing the header
SelectionMacros == {"BOOST_STACKTRACE_USE_NOOP", "BOOST_STACKTRACE_USE_WINDBG",
                    "BOOST_STACKTRACE_USE_ADDR2LINE", "BOOST_STACKTRACE_USE_BACKTRACE",
                    "BOOST_STACKTRACE_USE_HEADER"}

BackendMacros == SelectionMacros \ {"BOOST_STACKTRACE_USE_HEADER"}

LinkMacros == {"BOOST_STACKTRACE_LINK", "BOOST_STACKTRACE_DYN_LINK",
               "BOOST_ALL_DYN_LINK", "BOOST_STACKTRACE_INTERNAL_BUILD_LIBS"}

FunctionMacros == {"BOOST_STACKTRACE_FUNCTION=BOOST_SYMBOL_EXPORT",
                   "BOOST_STACKTRACE_FUNCTION=BOOST_SYMBOL_IMPORT",
                   "BOOST_STACKTRACE_FUNCTION=",
                   "BOOST_STACKTRACE_FUNCTION=inline"}

Platforms == [has_include : BOOLEAN, gnuc : {"undefined", "le4", "gt4"},
              clang : BOOLEAN, dbgeng_h : BOOLEAN, windows : BOOLEAN]

\* // Link or header only
link_or_header_only(d) ==
    LET d1 == IF "BOOST_STACKTRACE_LINK" \notin d /\ "BOOST_STACKTRACE_DYN_LINK" \in d
              THEN d \cup {"BOOST_STACKTRACE_LINK"} ELSE d
    IN  IF /\ "BOOST_STACKTRACE_LINK" \in d1
           /\ "BOOST_STACKTRACE_DYN_LINK" \notin d1
           /\ "BOOST_ALL_DYN_LINK" \in d1
        THEN d1 \cup {"BOOST_STACKTRACE_DYN_LINK"} ELSE d1

\* defined(__has_include) && (!defined(__GNUC__) || __GNUC__ > 4 || BOOST_CLANG)
has_include_usable(pl) ==
    pl.has_include /\ (pl.gnuc = "undefined" \/ pl.gnuc = "gt4" \/ pl.clang)

\* The macro the nested #if chooses.
detected(pl) ==
    IF has_include_usable(pl)
    THEN IF pl.dbgeng_h THEN "BOOST_STACKTRACE_USE_WINDBG"
                        ELSE "BOOST_STACKTRACE_USE_ADDR2LINE"
    ELSE IF pl.windows THEN "BOOST_STACKTRACE_USE_WINDBG"
                       ELSE "BOOST_STACKTRACE_USE_ADDR2LINE"

\* Mutant: the guard of the block forgets BOOST_STACKTRACE_USE_HEADER.
backend_autodetection_no_header(d, pl) ==
    IF d \cap BackendMacros = {} THEN d \cup {detected(pl)} ELSE d

\* // Backend autodetection
backend_autodetection(d, pl) ==
    IF d \cap SelectionMacros = {} THEN d \cup {detected(pl)} ELSE d

\* #ifdef BOOST_STACKTRACE_LINK ... #define BOOST_STACKTRACE_FUNCTION ...
define_function(d) ==
    d \cup { IF "BOOST_STACKTRACE_LINK" \in d
             THEN IF "BOOST_STACKTRACE_DYN_LINK" \in d
                  THEN IF "BOOST_STACKTRACE_INTERNAL_BUILD_LIBS" \in d
                       THEN "BOOST_STACKTRACE_FUNCTION=BOOST_SYMBOL_EXPORT"
                       ELSE "BOOST_STACKTRACE_FUNCTION=BOOST_SYMBOL_IMPORT"
                  ELSE "BOOST_STACKTRACE_FUNCTION="
             ELSE "BOOST_STACKTRACE_FUNCTION=inline" }

\* #undef BOOST_STACKTRACE_FUNCTION, and the header-only include of backend.ipp
end_of_header(d) ==
    (d \ FunctionMacros) \cup (IF "BOOST_STACKTRACE_LINK" \notin d
                               THEN {"backend.ipp"} ELSE {})

PreprocessorStep(from, to, after) ==
    /\ pp = from
    /\ pp' = to
    /\ defined' = after
    /\ UNCHANGED <<user, platform, frameVars, collectVars>>

LinkBlock == PreprocessorStep("start", "linked", link_or_header_only(defined))
Autodetect ==
    PreprocessorStep("linked", "detected", backend_autodetection(defined, platform))
FunctionBlock == PreprocessorStep("detected", "declared", define_function(defined))
EndOfHeader == PreprocessorStep("declared", "done", end_of_header(defined))

InitBuild ==
    /\ FramesFresh
    /\ first = Untracked
    /\ backend = "noop"
    /\ stack = <<>>
    /\ CollectIdle
    /\ user \in SUBSET (SelectionMacros \cup LinkMacros)
    /\ defined = user
    /\ platform \in Platforms
    /\ pp = "start"

NextBuild ==
    \/ LinkBlock
    \/ Autodetect
    \/ FunctionBlock
    \/ EndOfHeader

SpecBuild == InitBuild /\ [][NextBuild]_vars

\* ------------------------------------------------------------ properties
LastFrame == frames[ret.lhs]

\* C1: for every address a, null and garbage included, address() of a frame
\* constructed by frame(a) returns exactly a: every frame bound to an address
\* holds that address, and every address() call returns the address its frame
\* was constructed from.
Thm_C1 ==
    /\ \A i \in Frames : kind[i] = "bound" => address(frames[i]) = given[i]
    /\ ret.op = "frame(addr)" => address(LastFrame) = ret.val
    /\ ret.op = "address" => ret.val = given[ret.lhs]

Wit_C1 ==
    /\ ret.op = "address"
    /\ kind[ret.lhs] = "bound"
    /\ given[ret.lhs] = MaxAddr
    /\ ret.val = MaxAddr

\* C2: a default-constructed frame holds the null address and is empty; a
\* frame constructed from a non-null address is not empty; empty() returns
\* true exactly when address() is null.
Thm_C2 ==
    /\ \A i \in Frames : kind[i] = "default" =>
          address(frames[i]) = NULL /\ empty(frames[i])
    /\ \A i \in Frames : kind[i] = "bound" /\ given[i] # NULL => ~empty(frames[i])
    /\ ret.op = "empty" => (ret.val <=> address(LastFrame) = NULL)
    /\ ret.op = "empty" => (ret.val <=> given[ret.lhs] = NULL)

Wit_C2 ==
    /\ ret.op = "empty"
    /\ kind[ret.lhs] = "bound"
    /\ given[ret.lhs] # NULL
    /\ ret.val = FALSE

\* C3 as stated: empty() and the boolean conversion each return true if and
\* only if the stored address is null.
Orig_C3 ==
    ret.op \in {"empty", "bool"} => (ret.val <=> address(LastFrame) = NULL)

\* C3 as amended: empty() returns true if and only if the stored address is
\* null, the boolean conversion returns true if and only if it is not null,
\* and so each is the negation of the other (as operator! is of the
\* conversion).
Thm_C3 ==
    /\ ret.op = "empty" => (ret.val <=> address(LastFrame) = NULL)
    /\ ret.op = "!" => (ret.val <=> address(LastFrame) = NULL)
    /\ ret.op = "bool" => (ret.val <=> address(LastFrame) # NULL)
    /\ \A i \in Frames : operator_bool(frames[i]) <=> ~empty(frames[i])

Wit_C3 ==
    /\ ret.op = "bool"
    /\ ret.val = TRUE
    /\ address(LastFrame) # NULL
    /\ ~empty(LastFrame)

ExactlyOne(a, b, c) ==
    /\ a \/ b \/ c
    /\ ~(a /\ b)
    /\ ~(a /\ c)
    /\ ~(b /\ c)

\* C4: for all frames x and y exactly one of x<y, x>y, x==y holds, the order
\* is transitive, and x<=y iff not x>y, x>=y iff not x<y, x!=y iff not x==y;
\* a comparison returns what the order of the construction addresses says.
Thm_C4 ==
    /\ \A i, j \in Frames :
          LET x == frames[i]
              y == frames[j]
          IN  /\ ExactlyOne(operator_less(x, y), operator_greater(x, y),
                            operator_equal(x, y))
              /\ operator_less_equal(x, y) <=> ~operator_greater(x, y)
              /\ operator_greater_equal(x, y) <=> ~operator_less(x, y)
              /\ operator_not_equal(x, y) <=> ~operator_equal(x, y)
              /\ operator_less_equal(x, y) <=>
                    (operator_less(x, y) \/ operator_equal(x, y))
              /\ operator_greater_equal(x, y) <=>
                    (operator_greater(x, y) \/ operator_equal(x, y))
    /\ \A i, j, k \in Frames :
          operator_less(frames[i], frames[j]) /\ operator_less(frames[j], frames[k])
             => operator_less(frames[i], frames[k])
    /\ ret.op = ">" => (ret.val <=> given[ret.lhs] > given[ret.rhs])
    /\ ret.op = "<=" => (ret.val <=> given[ret.lhs] <= given[ret.rhs])

Wit_C4 ==
    /\ ret.op = ">"
    /\ ret.val = TRUE
    /\ operator_less(frames[ret.rhs], frames[ret.lhs])
    /\ ~operator_equal(frames[ret.lhs], frames[ret.rhs])

\* C5: hash_value(f) is the stored address as an unsigned integer; two
\* frames constructed from the same address compare equal, hash equally and
\* neither is less than the other; frames that compare equal hash equally.
Thm_C5 ==
    /\ ret.op = "hash_value" => ret.val = given[ret.lhs]
    /\ \A i, j \in Frames :
          given[i] = given[j] =>
             /\ operator_equal(frames[i], frames[j])
             /\ hash_value(frames[i]) = hash_value(frames[j])
             /\ ~operator_less(frames[i], frames[j])
             /\ ~operator_less(frames[j], frames[i])
    /\ \A i, j \in Frames :
          operator_equal(frames[i], frames[j]) =>
             hash_value(frames[i]) = hash_value(frames[j])

Wit_C5 ==
    /\ ret.op = "hash_value"
    /\ ret.val = MaxAddr
    /\ \E j \in Frames \ {ret.lhs} :
          /\ kind[j] = "bound"
          /\ kind[ret.lhs] = "bound"
          /\ given[j] = given[ret.lhs]
          /\ operator_equal(frames[j], LastFrame)

\* Frame i is empty: made by frame(), or from the null address.
IsEmptyFrame(i) == kind[i] = "default" \/ given[i] = NULL \/ address(frames[i]) = NULL

Thm_C10 ==
    [][ret'.op \in ObserverOps => frames' = frames]_vars

Wit_C10 ==
    /\ ret.op = "<<"
    /\ kind[ret.lhs] = "bound"
    /\ address(LastFrame) = given[ret.lhs]
    /\ address(LastFrame) # NULL

\* C7: collect(buffer, capacity) writes no more than capacity entries and
\* returns the number written, the innermost frames in order: with capacity
\* below the true depth it returns exactly capacity, and with capacity 0 it
\* returns 0 and writes nothing; no word outside the first count slots is
\* written, the one after the buffer included.
Thm_C7 ==
    /\ count <= size
    /\ size < Len(stack) => count = size
    /\ size >= Len(stack) => count = Len(stack)
    /\ size = 0 => count = 0 /\ memory = FreshBuffer
    /\ \A k \in Slots : k <= count => memory[k] = stack[k]
    /\ \A k \in Slots : k > count => memory[k] = "untouched"
    /\ ret.op = "collect" => ret.val = count

Wit_C7 ==
    /\ ret.op = "collect"
    /\ size = BufLen
    /\ size < Len(stack)
    /\ count = size
    /\ memory[BufLen] = stack[BufLen]
    /\ memory[BufLen + 1] = "untouched"

BackendsOf(d) == d \cap BackendMacros

AfterSelection == pp \in {"detected", "declared", "done"}

\* C9 as stated: for every combination of predefined macros and platform
\* conditions, exactly one of the four backend macros is defined after the
\* selection block.
Orig_C9 ==
    AfterSelection => Cardinality(BackendsOf(defined)) = 1

\* C9 as amended: when the user predefines none of the five selection macros
\* (the four backends and BOOST_STACKTRACE_USE_HEADER), exactly one backend
\* macro is defined after the block, WINDBG or ADDR2LINE; when the user
\* predefines any of the five, the block defines nothing, and the selection
\* macros defined after it are exactly the ones the user predefined.
Thm_C9 ==
    AfterSelection =>
       /\ user \cap SelectionMacros = {} =>
             /\ Cardinality(BackendsOf(defined)) = 1
             /\ defined \cap SelectionMacros \subseteq
                   {"BOOST_STACKTRACE_USE_WINDBG", "BOOST_STACKTRACE_USE_ADDR2LINE"}
       /\ user \cap SelectionMacros # {} =>
             defined \cap SelectionMacros = user \cap SelectionMacros

Wit_C9 ==
    /\ pp = "done"
    /\ user \cap SelectionMacros = {}
    /\ BackendsOf(defined) = {"BOOST_STACKTRACE_USE_WINDBG"}
    /\ platform.windows
    /\ ~platform.has_include

====
